---- MODULE Spec2Model ----
(***************************************************************************)
(* Dependency resolution and caching engine of gather-ts:                  *)
(*   DependencyCache    (src/src/core/dependency/DependencyCache.ts)       *)
(*   IgnoreHandler      (src/src/core/dependency/IgnoreHandler.ts)         *)
(*   DependencyAnalyzer (src/src/core/dependency/DependencyAnalyzer.ts)    *)
(***************************************************************************)
EXTENDS Integers, Sequences, FiniteSets, TLC

VARIABLES
    dc,     \* the DependencyCache object: cache map, stats, isInitialized, cacheDuration
    now,    \* Date.now()
    last,   \* the most recent cache operation: what was called and what it answered
    ih,     \* the IgnoreHandler object: patterns, isInitialized
    ga,     \* the most recent gatherDependencies call: its arguments and its answer
    an,     \* the DependencyAnalyzer object: isInitialized, originalCwd
    cwd,    \* process.cwd()
    calls   \* the analyzeDependencies calls: position, arguments, events, answer

vars == <<dc, now, last, ih, ga, an, cwd, calls>>

(***************************************************************************)
(* Bounds of the model.                                                    *)
(***************************************************************************)
MaxTime == 2
MaxCount == 1
MaxDepth == 2
MaxLookups == 2
MaxPatterns == 4
MaxEntries == 3

(***************************************************************************)
(* JavaScript values.                                                      *)
(***************************************************************************)
\* an optional number that was not given
undefined == -1
\* stats.oldestEntry of an empty cache
null == -2

\* x || d on numbers: undefined and 0 are falsy
OrElse(x, d) == IF x = undefined \/ x = 0 THEN d ELSE x

\* a Map as a function on the keys it holds
EmptyMap == << >>
MapHas(m, k) == k \in DOMAIN m
MapSet(m, k, v) == [x \in (DOMAIN m) \cup {k} |-> IF x = k THEN v ELSE m[x]]
MapDelete(m, k) == [x \in (DOMAIN m) \ {k} |-> m[x]]

RECURSIVE SumOver(_, _)
SumOver(f, S) ==
    IF S = {} THEN 0
    ELSE LET x == CHOOSE y \in S : TRUE IN f[x] + SumOver(f, S \ {x})

MinOf(S) == CHOOSE x \in S : \A y \in S : x <= y

(***************************************************************************)
(* DependencyCache                                                         *)
(***************************************************************************)
\* the default TTL the cache is constructed with (options.timeout)
CacheTimeout == 1
CacheKeys == {"k1", "k2"}
CacheGraphs == {"g1", "g2"}

initializeStats ==
    [size |-> 0, hits |-> 0, misses |-> 0, oldestEntry |-> null,
     averageAge |-> <<0, 1>>, invalidations |-> 0, errors |-> 0]

\* the object the constructor leaves; timeout is the configured default TTL
NewCache(timeout) ==
    [cache |-> EmptyMap, stats |-> initializeStats, isInitialized |-> FALSE,
     timeout |-> OrElse(timeout, 300000), cacheDuration |-> 0]

\* what a cache operation gives back: the cache after it, the value returned
\* (<< >> for null / void, <<v>> for a value v) and the error thrown
Done(c, ret) == [dc |-> c, ret |-> ret, err |-> "none"]
Thrown(c, e) == [dc |-> c, ret |-> << >>, err |-> e]

computeHash(dependencies) == <<"json", dependencies>>

\* averageAge is totalAge / size, kept as the pair <<totalAge, size>>
updateStats(c, t) ==
    LET ts == [k \in DOMAIN c.cache |-> c.cache[k].timestamp]
        age == [k \in DOMAIN c.cache |-> t - c.cache[k].timestamp]
        n == Cardinality(DOMAIN c.cache)
        oldestTimestamp == MinOf({t} \cup {ts[k] : k \in DOMAIN ts})
    IN [c EXCEPT !.stats =
            [@ EXCEPT !.size = n,
                      !.oldestEntry = IF n > 0 THEN oldestTimestamp ELSE null,
                      !.averageAge = IF n > 0 THEN <<SumOver(age, DOMAIN age), n>>
                                     ELSE <<0, 1>>]]

Cache_initialize(c, force, timeout) ==
    IF c.isInitialized THEN Done(c, << >>)
    ELSE Done([c EXCEPT !.cacheDuration = IF timeout # undefined /\ timeout # 0
                                          THEN timeout ELSE @,
                        !.cache = EmptyMap,
                        !.stats = initializeStats,
                        !.isInitialized = TRUE], << >>)

CleanupKeepsEntries(c) ==
    Done([c EXCEPT !.stats = initializeStats, !.isInitialized = FALSE], << >>)

Cache_cleanup(c) ==
    Done([c EXCEPT !.cache = EmptyMap, !.stats = initializeStats,
                   !.isInitialized = FALSE], << >>)

Cache_get(c, key, optTimeout, t) ==
    IF ~c.isInitialized THEN Thrown(c, "CacheError")
    ELSE IF ~MapHas(c.cache, key)
    THEN Done([c EXCEPT !.stats.misses = @ + 1], << >>)
    ELSE LET entry == c.cache[key]
             age == t - entry.timestamp
         IN IF age > OrElse(optTimeout, c.timeout)
            THEN Done([c EXCEPT !.cache = MapDelete(@, key),
                                !.stats.invalidations = @ + 1,
                                !.stats.misses = @ + 1], << >>)
            ELSE Done([c EXCEPT !.stats.hits = @ + 1], <<entry.dependencies>>)

SetAlways(c, key, dependencies, optTimeout, force, t) ==
    IF ~c.isInitialized THEN Thrown(c, "CacheError")
    ELSE LET entry == [dependencies |-> dependencies, timestamp |-> t,
                       hash |-> computeHash(dependencies),
                       timeout |-> OrElse(optTimeout, c.cacheDuration)]
         IN Done(updateStats([c EXCEPT !.cache = MapSet(@, key, entry)], t), << >>)

Cache_set(c, key, dependencies, optTimeout, force, t) ==
    IF ~c.isInitialized THEN Thrown(c, "CacheError")
    ELSE LET entry == [dependencies |-> dependencies, timestamp |-> t,
                       hash |-> computeHash(dependencies),
                       timeout |-> OrElse(optTimeout, c.cacheDuration)]
             written == IF force THEN MapSet(c.cache, key, entry)
                        ELSE IF ~MapHas(c.cache, key) THEN MapSet(c.cache, key, entry)
                        ELSE c.cache
         IN Done(updateStats([c EXCEPT !.cache = written], t), << >>)

Cache_delete(c, key, t) ==
    IF ~c.isInitialized THEN Thrown(c, "CacheError")
    ELSE IF MapHas(c.cache, key)
         THEN Done(updateStats([c EXCEPT !.cache = MapDelete(@, key)], t), << >>)
         ELSE Done(c, << >>)

Cache_clear(c) ==
    IF ~c.isInitialized THEN Thrown(c, "CacheError")
    ELSE Done([c EXCEPT !.cache = EmptyMap, !.stats = initializeStats], << >>)

Cache_has(c, key, t) ==
    IF ~c.isInitialized THEN Thrown(c, "CacheError")
    ELSE IF ~MapHas(c.cache, key) THEN Done(c, <<FALSE>>)
    ELSE LET age == t - c.cache[key].timestamp
         IN IF age > c.timeout
            THEN Done([c EXCEPT !.cache = MapDelete(@, key),
                                !.stats.invalidations = @ + 1], <<FALSE>>)
            ELSE Done(c, <<TRUE>>)

Cache_getStats(c, t) ==
    LET u == updateStats(c, t) IN Done(u, <<u.stats>>)

(***************************************************************************)
(* Paths and patterns.  A file is named by its path relative to the        *)
(* project root (resolvePath and getRelativePath of one root are inverse   *)
(* to each other); every file of the universe exists and is readable.      *)
(***************************************************************************)
VendorFile == "node_modules/v"
SourceFiles == {"a", "b", "c"}
Files == SourceFiles \cup {VendorFile}
FileOrder == <<"a", "b", "c", VendorFile>>

\* the paths shouldIgnore is asked about: the files and two log files
IgnorePaths == Files \cup {"important.log", "other.log"}

\* relativePath.includes("node_modules")
CrossesVendor(p) == p = VendorFile

\* a pattern micromatch refuses (not a non-empty string, or too long): both
\* micromatch(["test"], pattern) and micromatch.isMatch(path, pattern) throw
Malformed == ""

DefaultPatterns == <<"node_modules/**", ".git/**">>

\* a pattern that starts with "!", and the glob after the "!"
Negated(pattern) == pattern \in {"!c", "!b", "!node_modules/**", "!important.log"}
Positive(pattern) ==
    CASE pattern = "!c" -> "c"
      [] pattern = "!b" -> "b"
      [] pattern = "!node_modules/**" -> "node_modules/**"
      [] pattern = "!important.log" -> "important.log"
      [] OTHER -> pattern

\* the paths of the universe a glob without "!" matches (dot, matchBase)
GlobMatch(p, glob) ==
    CASE glob = "node_modules/**" -> p = VendorFile
      [] glob = ".git/**" -> FALSE
      [] glob \in {"a", "**/a"} -> p = "a"
      [] glob \in {"b", "**/b"} -> p = "b"
      [] glob \in {"c", "**/c"} -> p = "c"
      [] glob = "*" -> TRUE
      [] glob = "*.log" -> p \in {"important.log", "other.log"}
      [] glob \in {"important.log", "**/important.log"} -> p = "important.log"
      [] OTHER -> FALSE

\* micromatch.isMatch: a pattern "!g" matches exactly the paths g does not
isMatch(p, pattern) ==
    IF Negated(pattern) THEN ~GlobMatch(p, Positive(pattern))
    ELSE GlobMatch(p, pattern)

(***************************************************************************)
(* IgnoreHandler                                                           *)
(***************************************************************************)
NewIgnoreHandler(extraPatterns) ==
    [patterns |-> extraPatterns, isInitialized |-> FALSE]

RECURSIVE Dedupe(_, _)
\* [...new Set(list)]: first occurrences, in order
Dedupe(list, seen) ==
    IF list = << >> THEN << >>
    ELSE IF Head(list) \in seen THEN Dedupe(Tail(list), seen)
    ELSE <<Head(list)>> \o Dedupe(Tail(list), seen \cup {Head(list)})

\* validatePattern throws on a pattern micromatch refuses; the patterns of
\* the universe have no leading "./" to strip
validatePatternThrows(pattern) == pattern = Malformed

\* the patterns one line of an ignore file becomes
processPattern(pattern) ==
    IF Negated(pattern) THEN <<pattern>>
    ELSE IF pattern \in {"node_modules/**", ".git/**", "*", "*.log",
                         "**/a", "**/b", "**/c", "**/important.log"}
    THEN <<pattern>>
    ELSE CASE pattern = "a" -> <<"a", "**/a">>
           [] pattern = "b" -> <<"b", "**/b">>
           [] pattern = "c" -> <<"c", "**/c">>
           [] pattern = "important.log" -> <<"important.log", "**/important.log">>
           [] OTHER -> <<pattern>>

RECURSIVE processPatterns(_)
processPatterns(lines) ==
    IF lines = << >> THEN << >>
    ELSE processPattern(Head(lines)) \o processPatterns(Tail(lines))

\* processPatterns throws when validatePattern refuses one of the lines
Ignore_initializeThrows(gatherTSPatterns, gitignorePatterns) ==
    \/ \E i \in 1..Len(gatherTSPatterns) : validatePatternThrows(gatherTSPatterns[i])
    \/ \E i \in 1..Len(gitignorePatterns) : validatePatternThrows(gitignorePatterns[i])

\* initialize() of a handler whose project root exists, with the lines of
\* .gather-ts-ignore and .gitignore; super.initialize() has set
\* isInitialized by the time the patterns are loaded
Ignore_initialize(h, gatherTSPatterns, gitignorePatterns) ==
    IF Ignore_initializeThrows(gatherTSPatterns, gitignorePatterns)
    THEN [h EXCEPT !.isInitialized = TRUE]
    ELSE [h EXCEPT !.isInitialized = TRUE,
                   !.patterns = Dedupe(DefaultPatterns
                                         \o processPatterns(gatherTSPatterns)
                                         \o processPatterns(gitignorePatterns)
                                         \o h.patterns, {})]

RECURSIVE LastMatch(_, _)
\* a scan in which the last pattern that matches decides
LastMatch(p, patterns) ==
    IF patterns = << >> THEN FALSE
    ELSE LET pattern == patterns[Len(patterns)]
         IN IF pattern # Malformed /\ isMatch(p, pattern) THEN ~Negated(pattern)
            ELSE LastMatch(p, SubSeq(patterns, 1, Len(patterns) - 1))

RECURSIVE FirstMatch(_, _)
\* the scan of shouldIgnore: the first pattern that matches decides
FirstMatch(p, patterns) ==
    IF patterns = << >> THEN FALSE
    ELSE IF Head(patterns) = Malformed THEN FirstMatch(p, Tail(patterns))
    ELSE IF isMatch(p, Head(patterns)) THEN ~Negated(Head(patterns))
    ELSE FirstMatch(p, Tail(patterns))

RECURSIVE ScanWarnings(_, _)
\* the number of "Pattern matching error" warnings the scan logs: one per
\* pattern on which isMatch throws before the scan returns
ScanWarnings(p, patterns) ==
    IF patterns = << >> THEN 0
    ELSE IF Head(patterns) = Malformed THEN 1 + ScanWarnings(p, Tail(patterns))
    ELSE IF isMatch(p, Head(patterns)) THEN 0
    ELSE ScanWarnings(p, Tail(patterns))

\* a shouldIgnore without the node_modules test
PatternsOnly(h, p) == FirstMatch(p, h.patterns)

\* shouldIgnore of an initialized handler
shouldIgnore(h, p) ==
    IF CrossesVendor(p) THEN TRUE ELSE FirstMatch(p, h.patterns)

SeqHas(list, x) == \E i \in 1..Len(list) : list[i] = x

Ignore_addPattern(h, pattern) ==
    IF validatePatternThrows(pattern) THEN h
    ELSE IF SeqHas(h.patterns, pattern) THEN h
    ELSE [h EXCEPT !.patterns = Append(@, pattern)]

\* patterns.splice(patterns.indexOf(pattern), 1)
Ignore_removePattern(h, pattern) ==
    IF ~SeqHas(h.patterns, pattern) THEN h
    ELSE LET i == CHOOSE k \in 1..Len(h.patterns) :
                      /\ h.patterns[k] = pattern
                      /\ \A j \in 1..(k - 1) : h.patterns[j] # pattern
         IN [h EXCEPT !.patterns = SubSeq(@, 1, i - 1) \o SubSeq(@, i + 1, Len(@))]

Ignore_resetPatterns(h) == [h EXCEPT !.patterns = DefaultPatterns]

Ignore_cleanup(h) == [h EXCEPT !.patterns = << >>, !.isInitialized = FALSE]

(***************************************************************************)
(* Dependency maps: an object of file -> array of files, as the sequence   *) 
(* of its entries in key order.                                            *)
(***************************************************************************)
Keys(g) == {g[i].file : i \in 1..Len(g)}

\* adjacencyList[file] || []
DepsOf(g, file) ==
    IF file \in Keys(g)
    THEN g[CHOOSE i \in 1..Len(g) : g[i].file = file].deps
    ELSE << >>

(***************************************************************************)
(* DependencyAnalyzer.gatherDependencies                                   *)
(***************************************************************************)
RECURSIVE SeedEntries(_, _, _, _)
\* the loop over entryFiles: queue and visited after it
SeedEntries(h, entryFiles, queue, visited) ==
    IF entryFiles = << >> THEN [queue |-> queue, visited |-> visited]
    ELSE LET file == Head(entryFiles)
         IN IF ~shouldIgnore(h, file)
            THEN SeedEntries(h, Tail(entryFiles),
                             Append(queue, [file |-> file, depth |-> 0]),
                             IF SeqHas(visited, file) THEN visited
                             ELSE Append(visited, file))
            ELSE SeedEntries(h, Tail(entryFiles), queue, visited)

\* a loop that stops after the first child
VisitFirstChild(h, children, depth, queue, visited) ==
    IF children = << >> THEN [queue |-> queue, visited |-> visited]
    ELSE LET child == Head(children)
         IN IF ~shouldIgnore(h, child) /\ ~SeqHas(visited, child)
            THEN [queue |-> Append(queue, [file |-> child, depth |-> depth + 1]),
                  visited |-> Append(visited, child)]
            ELSE [queue |-> queue, visited |-> visited]

RECURSIVE VisitChildren(_, _, _, _, _)
\* the loop over the children of one dequeued file
VisitChildren(h, children, depth, queue, visited) ==
    IF children = << >> THEN [queue |-> queue, visited |-> visited]
    ELSE LET child == Head(children)
         IN IF ~shouldIgnore(h, child) /\ ~SeqHas(visited, child)
            THEN VisitChildren(h, Tail(children), depth,
                               Append(queue, [file |-> child, depth |-> depth + 1]),
                               Append(visited, child))
            ELSE VisitChildren(h, Tail(children), depth, queue, visited)

RECURSIVE GatherLoopNoDepth(_, _, _, _, _, _)
\* a while loop without the depth test
GatherLoopNoDepth(h, g, maxDepth, queue, visited, progress) ==
    IF queue = << >> THEN [visited |-> visited, progress |-> progress]
    ELSE LET item == Head(queue)
             after == VisitChildren(h, DepsOf(g, item.file), item.depth,
                                    Tail(queue), visited)
         IN GatherLoopNoDepth(h, g, maxDepth, after.queue, after.visited,
                              Append(progress,
                                     [phase |-> "gathering",
                                      completed |-> Len(progress) + 1,
                                      total |-> Len(g),
                                      currentFile |-> item.file]))

RECURSIVE GatherLoopInclusive(_, _, _, _, _, _)
\* a while loop whose depth test lets the paths at maxDepth be expanded
GatherLoopInclusive(h, g, maxDepth, queue, visited, progress) ==
    IF queue = << >> THEN [visited |-> visited, progress |-> progress]
    ELSE LET item == Head(queue)
         IN IF maxDepth # undefined /\ item.depth > maxDepth
            THEN GatherLoopInclusive(h, g, maxDepth, Tail(queue), visited, progress)
            ELSE LET after == VisitChildren(h, DepsOf(g, item.file), item.depth,
                                            Tail(queue), visited)
                 IN GatherLoopInclusive(h, g, maxDepth, after.queue, after.visited,
                                        Append(progress,
                                               [phase |-> "gathering",
                                                completed |-> Len(progress) + 1,
                                                total |-> Len(g),
                                                currentFile |-> item.file]))

RECURSIVE GatherLoop(_, _, _, _, _, _)
\* the while loop; progress holds the progress events emitted so far, and
\* processed is their number
GatherLoop(h, g, maxDepth, queue, visited, progress) ==
    IF queue = << >> THEN [visited |-> visited, progress |-> progress]
    ELSE LET item == Head(queue)
         IN IF maxDepth # undefined /\ item.depth >= maxDepth
            THEN GatherLoop(h, g, maxDepth, Tail(queue), visited, progress)
            ELSE LET after == VisitChildren(h, DepsOf(g, item.file), item.depth,
                                            Tail(queue), visited)
                 IN GatherLoop(h, g, maxDepth, after.queue, after.visited,
                               Append(progress,
                                      [phase |-> "gathering",
                                       completed |-> Len(progress) + 1,
                                       total |-> Len(g),
                                       currentFile |-> item.file]))

\* what gatherDependencies gives back: the list returned (<<list>>, or << >>
\* when it throws), the error thrown and the progress events emitted
gatherDependencies(isInitialized, h, adjacencyList, entryFiles, maxDepth) ==
    IF ~isInitialized \/ (~h.isInitialized /\ entryFiles # << >>)
    THEN [ret |-> << >>, err |-> "ValidationError", progress |-> << >>]
    ELSE LET seeded == SeedEntries(h, entryFiles, << >>, << >>)
             out == GatherLoop(h, adjacencyList, maxDepth,
                               seeded.queue, seeded.visited, << >>)
         IN [ret |-> <<out.visited>>, err |-> "none", progress |-> out.progress]

(***************************************************************************)
(* DependencyAnalyzer.getCircularDependencies                              *)
(***************************************************************************)
\* path.indexOf(x)
IndexOf(list, x) == CHOOSE i \in 1..Len(list) : list[i] = x /\ \A j \in 1..(i - 1) : list[j] # x

\* the whole path, whatever the index
SliceWhole(list, i) == list

\* path.slice(i), i counted from 1
SliceFrom(list, i) == SubSeq(list, i, Len(list))

RECURSIVE dfs(_, _, _, _)
RECURSIVE dfsLoop(_, _, _, _)

\* st is the closure state: visited, recursionStack and cycles
dfs(dependencyMap, node, path, st) ==
    LET path1 == Append(path, node)
        entered == [st EXCEPT !.visited = @ \cup {node},
                              !.recursionStack = @ \cup {node}]
        left == dfsLoop(dependencyMap, DepsOf(dependencyMap, node), path1, entered)
    IN [left EXCEPT !.recursionStack = @ \ {node}]

\* the loop over the dependencies of the node at the end of path
dfsLoop(dependencyMap, dependencies, path, st) ==
    IF dependencies = << >> THEN st
    ELSE LET dependency == Head(dependencies)
             next ==
                 IF dependency \notin st.visited
                 THEN dfs(dependencyMap, dependency, path, st)
                 ELSE IF dependency \in st.recursionStack
                 THEN LET cycle == SliceFrom(path, IndexOf(path, dependency))
                      IN IF SeqHas(st.cycles, cycle) THEN st
                         ELSE [st EXCEPT !.cycles = Append(@, cycle)]
                 ELSE st
         IN dfsLoop(dependencyMap, Tail(dependencies), path, next)

\* a traversal from the first key only
dfsFirstRoot(dependencyMap, i, st) ==
    IF i > Len(dependencyMap) THEN st
    ELSE dfs(dependencyMap, dependencyMap[i].file, << >>, st)

RECURSIVE dfsRootsFresh(_, _, _)
\* a loop that forgets the visited set before every key
dfsRootsFresh(dependencyMap, i, st) ==
    IF i > Len(dependencyMap) THEN st
    ELSE dfsRootsFresh(dependencyMap, i + 1,
                       dfs(dependencyMap, dependencyMap[i].file, << >>,
                           [st EXCEPT !.visited = {}]))

RECURSIVE dfsRoots(_, _, _)
\* the loop over Object.keys(dependencyMap)
dfsRoots(dependencyMap, i, st) ==
    IF i > Len(dependencyMap) THEN st
    ELSE dfsRoots(dependencyMap, i + 1,
                  IF dependencyMap[i].file \notin st.visited
                  THEN dfs(dependencyMap, dependencyMap[i].file, << >>, st)
                  ELSE st)

\* the cycles, in the order found; one "warning" event is emitted per cycle
getCircularDependencies(dependencyMap) ==
    dfsRoots(dependencyMap, 1,
             [visited |-> {}, recursionStack |-> {}, cycles |-> << >>]).cycles

(***************************************************************************)
(* The project analyzed, and the extraction adapter (madge).               *)
(***************************************************************************)
ProjectRoot == "/proj"
StartDir == "/home"

\* the imports of each file of the project
ProjectImports(file) ==
    CASE file = "a" -> <<"b">>
      [] file = "b" -> <<"c", "a">>
      [] file = "c" -> <<VendorFile>>
      [] OTHER -> << >>

\* new RegExp(pattern with . ** * ? rewritten).test(path), for the paths of
\* the universe
ignoreRegExpMatches(pattern, p) ==
    CASE pattern = "node_modules/**" -> p = VendorFile
      [] pattern = "a" -> p = "a"
      [] pattern = "b" -> p = "b"
      [] pattern = "c" -> p = "c"
      [] pattern = "*" -> TRUE
      [] OTHER -> FALSE

\* madgeConfig.excludeRegExp, as the set of files it excludes
excludeRegExp(h, includeNodeModules) ==
    IF includeNodeModules THEN {}
    ELSE {p \in Files : \/ CrossesVendor(p)
                        \/ \E i \in 1..Len(h.patterns) :
                              ignoreRegExpMatches(h.patterns[i], p)}

RECURSIVE ReachableFrom(_, _)
\* the files the adapter walks from the files in S, skipping excluded ones
ReachableFrom(S, excluded) ==
    LET more == {d \in Files \ excluded :
                    \E f \in S : SeqHas(ProjectImports(f), d)}
    IN IF more \subseteq S THEN S ELSE ReachableFrom(S \cup more, excluded)

\* an adapter that reports the imports of the entry alone
EntryOnly(entryFile, excluded) ==
    IF entryFile \in excluded THEN << >>
    ELSE <<[file |-> entryFile,
            deps |-> SelectSeq(ProjectImports(entryFile), LAMBDA d : d \notin excluded)]>>

\* madge(entryFile, madgeConfig).obj() when it succeeds: every file reached
\* from the entry, in sorted key order, with its imports that are not excluded
madge(entryFile, excluded) ==
    LET reached == IF entryFile \in excluded THEN {}
                   ELSE ReachableFrom({entryFile}, excluded)
        Reached(f) == f \in reached
        Kept(d) == d \notin excluded
        keys == SelectSeq(FileOrder, Reached)
    IN [i \in 1..Len(keys) |->
           [file |-> keys[i], deps |-> SelectSeq(ProjectImports(keys[i]), Kept)]]

(***************************************************************************)
(* DependencyAnalyzer.analyzeDependencies                                  *)
(***************************************************************************)
Rank(f) == CHOOSE i \in 1..Len(FileOrder) : FileOrder[i] = f

RECURSIVE Insert(_, _)
Insert(sorted, f) ==
    IF sorted = << >> THEN <<f>>
    ELSE IF Rank(f) < Rank(Head(sorted)) THEN <<f>> \o sorted
    ELSE <<Head(sorted)>> \o Insert(Tail(sorted), f)

RECURSIVE Sort(_)
\* Array.prototype.sort() on strings
Sort(list) == IF list = << >> THEN << >> ELSE Insert(Sort(Tail(list)), Head(list))

\* a key that keeps the order of the entries
UnsortedKey(relativeFiles, projectRoot) ==
    [files |-> relativeFiles, root |-> projectRoot]

\* the md5 of the JSON text, as the content it digests (the extensions and
\* config paths are fixed per analyzer)
getCacheKey(relativeFiles, projectRoot) ==
    [files |-> Sort(relativeFiles), root |-> projectRoot]

\* dependencies[absFile] = value, keeping the position of a key already there
Assign(g, file, deps) ==
    IF file \in Keys(g)
    THEN [i \in 1..Len(g) |-> IF g[i].file = file THEN [file |-> file, deps |-> deps]
                              ELSE g[i]]
    ELSE Append(g, [file |-> file, deps |-> deps])

\* the body of the inner forEach: one [file, fileDeps] entry of one map
MergeFile(h, includeNodeModules, acc, entry) ==
    LET Valid(dep) == includeNodeModules \/ ~shouldIgnore(h, dep)
        validDeps == SelectSeq(entry.deps, Valid)
    IN IF (includeNodeModules \/ ~shouldIgnore(h, entry.file)) /\ Len(validDeps) > 0
       THEN [dependencies |-> Assign(acc.dependencies, entry.file,
                                     Dedupe(DepsOf(acc.dependencies, entry.file)
                                              \o validDeps, {})),
             totalFiles |-> acc.totalFiles + 1]
       ELSE acc

RECURSIVE MergeMap(_, _, _, _)
MergeMap(h, includeNodeModules, acc, deps) ==
    IF deps = << >> THEN acc
    ELSE MergeMap(h, includeNodeModules,
                  MergeFile(h, includeNodeModules, acc, Head(deps)), Tail(deps))

RECURSIVE MergeMaps(_, _, _, _)
\* dependencyMaps.forEach: the merged dependencies and totalFiles
MergeMaps(h, includeNodeModules, acc, dependencyMaps) ==
    IF dependencyMaps = << >> THEN acc
    ELSE MergeMaps(h, includeNodeModules,
                   MergeMap(h, includeNodeModules, acc, Head(dependencyMaps)),
                   Tail(dependencyMaps))

\* shouldIgnore throws on a handler that is not initialized; the merge calls
\* it as soon as a map has an entry, unless ignored paths are included
MergeThrows(h, includeNodeModules, dependencyMaps) ==
    /\ ~includeNodeModules
    /\ ~h.isInitialized
    /\ \E i \in 1..Len(dependencyMaps) : dependencyMaps[i] # << >>

CallIds == {"c1"}

NoError == [name |-> "none", entryPoint |-> "", failedDependencies |-> << >>]

\* a call that has not been made; the fields after err are observations of
\* the call: the directory it started in, the entry whose extraction was
\* rejected, the timestamp of the cache entry of its key once it has read or
\* written the cache (undefined: no entry), whether it wrote the cache, and
\* whether the graph it returned held a path shouldIgnore rejected then
IdleCall ==
    [pc |-> "idle", files |-> << >>, projectRoot |-> ProjectRoot,
     options |-> [skipCache |-> FALSE, useWorkingDir |-> FALSE,
                  includeNodeModules |-> FALSE],
     relativeFiles |-> << >>, events |-> << >>, adapterCalls |-> 0,
     pending |-> << >>, ret |-> << >>, err |-> NoError,
     startCwd |-> "", failed |-> "", storedAt |-> undefined, wrote |-> FALSE,
     leaks |-> FALSE]

changeWorkingDirectory(a, dir) == [a EXCEPT !.originalCwd = dir]

\* a restore that leaves the process where it is
StayInPlace(a, dir) == dir

\* process.cwd() after restoreWorkingDirectory
restoreWorkingDirectory(a, dir) ==
    IF dir # a.originalCwd THEN a.originalCwd ELSE dir

\* the finally block
Finally(a, dir, options) ==
    IF options.useWorkingDir THEN restoreWorkingDirectory(a, dir) ELSE dir

\* the error handleError("analyze", ...) throws from the catch block
handleError(entryFiles) ==
    [name |-> "DependencyAnalysisError", entryPoint |-> entryFiles[1],
     failedDependencies |-> entryFiles]

\* a catch block that announces completion and raises nothing
SwallowError(call, failedEntry) ==
    [call EXCEPT !.pc = "done",
                 !.events = Append(@, [type |-> "analysis:complete"]),
                 !.failed = failedEntry]

\* the call after its catch block: one analysis:error event and the error
CatchBlock(call, failedEntry) ==
    [call EXCEPT !.pc = "done",
                 !.events = Append(@, [type |-> "analysis:error"]),
                 !.err = handleError(call.files),
                 !.failed = failedEntry]

\* some key or member value of the graph is a path shouldIgnore rejects
HasIgnored(h, g) ==
    \E i \in 1..Len(g) :
        \/ shouldIgnore(h, g[i].file)
        \/ \E j \in 1..Len(g[i].deps) : shouldIgnore(h, g[i].deps[j])

\* progress events that count down
CountDown(phase, list) ==
    [i \in 1..Len(list) |->
        [type |-> "progress", phase |-> phase, completed |-> Len(list) + 1 - i,
         total |-> Len(list), currentFile |-> list[i]]]

\* the events of the fan-out: processedFiles is incremented and the event
\* emitted before the first await of each callback, so in entry order
ProgressEvents(phase, list) ==
    [i \in 1..Len(list) |->
        [type |-> "progress", phase |-> phase, completed |-> i,
         total |-> Len(list), currentFile |-> list[i]]]

WarningEvents(cycles) == [i \in 1..Len(cycles) |-> [type |-> "warning"]]

StoredAt(c, key) == IF MapHas(c.cache, key) THEN c.cache[key].timestamp ELSE undefined

(***************************************************************************)
(* DependencyAnalyzer.validateEntryFiles                                   *)
(***************************************************************************)
\* an entry path under the root at which no file exists
MissingFile == "missing"

\* the body of the try block throws for the file: it does not exist, or it
\* is ignored (shouldIgnore itself throws on a handler not initialized)
EntryThrows(h, includeNodeModules, file) ==
    \/ file = MissingFile
    \/ ~includeNodeModules /\ (~h.isInitialized \/ shouldIgnore(h, file))

RECURSIVE ValidateLoop(_, _, _, _, _)
\* the for loop: validFiles, invalidFiles and the events emitted, in order
ValidateLoop(h, includeNodeModules, entryFiles, total, acc) ==
    IF entryFiles = << >> THEN acc
    ELSE LET file == Head(entryFiles)
             next ==
                 IF EntryThrows(h, includeNodeModules, file)
                 THEN [acc EXCEPT !.invalidFiles = Append(@, file),
                                  !.events = Append(@, [type |-> "warning"])]
                 ELSE [acc EXCEPT
                         !.validFiles = Append(@, file),
                         !.events = Append(@, [type |-> "progress",
                                               phase |-> "validation",
                                               completed |-> Len(acc.validFiles) + 1,
                                               total |-> total,
                                               currentFile |-> file])]
         IN ValidateLoop(h, includeNodeModules, Tail(entryFiles), total, next)

\* handleError("validate", error): no context is passed, so the error raised
\* has neither an entry point nor a list of failed dependencies
handleValidateError ==
    [name |-> "DependencyAnalysisError", entryPoint |-> "", failedDependencies |-> << >>]

\* the call record of validateEntryFiles(entryFiles, rootDir, options)
validateEntryFiles(a, h, entryFiles, options) ==
    LET call == [IdleCall EXCEPT !.pc = "validated", !.files = entryFiles,
                                 !.options = options]
        out == ValidateLoop(h, options.includeNodeModules, entryFiles, Len(entryFiles),
                            [validFiles |-> << >>, invalidFiles |-> << >>,
                             events |-> << >>])
    IN IF ~a.isInitialized
       THEN [call EXCEPT !.err.name = "ValidationError"]
       ELSE IF out.invalidFiles # << >>
       THEN [call EXCEPT !.events = Append(out.events, [type |-> "analysis:error"]),
                         !.err = handleValidateError]
       ELSE [call EXCEPT !.events = out.events, !.ret = <<out.validFiles>>]

\* analyzeDependencies up to its first await: the working directory, the
\* analysis:start event, the cache lookup and, on a miss, the fan-out, which
\* emits every progress event and invokes the adapter once per entry
AnalyzeBegin(c, files, projectRoot, options) ==
    /\ calls[c].pc \in {"idle", "done", "validated"}
    /\ LET key == getCacheKey(files, projectRoot)
           got == Cache_get(dc, key, undefined, now)
           a1 == IF options.useWorkingDir THEN changeWorkingDirectory(an, cwd) ELSE an
           d1 == IF options.useWorkingDir THEN projectRoot ELSE cwd
           started == [IdleCall EXCEPT
                         !.files = files, !.projectRoot = projectRoot,
                         !.options = options,
                         !.relativeFiles = IF options.skipCache THEN files
                                           ELSE Sort(files),
                         !.events = <<[type |-> "analysis:start"]>>,
                         !.startCwd = cwd]
       IN IF ~an.isInitialized
          THEN /\ calls' = [calls EXCEPT ![c] =
                               [IdleCall EXCEPT !.pc = "done", !.files = files,
                                                !.projectRoot = projectRoot,
                                                !.options = options,
                                                !.startCwd = cwd,
                                                !.err.name = "ValidationError"]]
               /\ UNCHANGED <<dc, an, cwd>>
          ELSE IF ~options.skipCache /\ got.err # "none"
          THEN /\ calls' = [calls EXCEPT ![c] = CatchBlock(started, "")]
               /\ an' = a1
               /\ cwd' = Finally(a1, d1, options)
               /\ dc' = dc
          ELSE IF ~options.skipCache /\ got.ret # << >>
          THEN LET cachedDeps == got.ret[1]
                   cycles == getCircularDependencies(cachedDeps)
               IN /\ calls' = [calls EXCEPT ![c] =
                                 [started EXCEPT
                                    !.pc = "hitCycles",
                                    !.events = @ \o WarningEvents(cycles),
                                    !.storedAt = StoredAt(got.dc, key),
                                    !.pending =
                                       <<[entryFiles |-> files,
                                          dependencies |-> cachedDeps,
                                          circularDependencies |-> cycles,
                                          totalFiles |-> Len(cachedDeps),
                                          warnings |-> << >>]>>]]
                  /\ an' = a1
                  /\ cwd' = d1
                  /\ dc' = got.dc
          ELSE /\ calls' = [calls EXCEPT ![c] =
                              [started EXCEPT
                                 !.pc = "extracting",
                                 !.events = @ \o ProgressEvents("analysis",
                                                                started.relativeFiles),
                                 !.adapterCalls = Len(started.relativeFiles)]]
               /\ an' = a1
               /\ cwd' = d1
               /\ dc' = IF options.skipCache THEN dc ELSE got.dc
    /\ UNCHANGED <<now, last, ih, ga>>

\* the call continues after Promise.all: rejected is the position of the
\* entry whose extraction was rejected first, 0 when every extraction
\* succeeded.  Then the merge, the cache write and the cycle detection.
AnalyzeSettle(c, rejected) ==
    /\ calls[c].pc = "extracting"
    /\ rejected \in 0..Len(calls[c].relativeFiles)
    /\ LET call == calls[c]
           incl == call.options.includeNodeModules
           excluded == excludeRegExp(ih, incl)
           dependencyMaps == [i \in 1..Len(call.relativeFiles) |->
                                 madge(call.relativeFiles[i], excluded)]
           merged == MergeMaps(ih, incl, [dependencies |-> << >>, totalFiles |-> 0],
                               dependencyMaps)
           key == getCacheKey(call.relativeFiles, call.projectRoot)
           put == Cache_set(dc, key, merged.dependencies, undefined, FALSE, now)
           cycles == getCircularDependencies(merged.dependencies)
       IN IF rejected > 0
          THEN /\ calls' = [calls EXCEPT ![c] =
                               CatchBlock(call, call.relativeFiles[rejected])]
               /\ cwd' = Finally(an, cwd, call.options)
               /\ dc' = dc
          ELSE IF MergeThrows(ih, incl, dependencyMaps)
                  \/ (~call.options.skipCache /\ put.err # "none")
          THEN /\ calls' = [calls EXCEPT ![c] = CatchBlock(call, "")]
               /\ cwd' = Finally(an, cwd, call.options)
               /\ dc' = dc
          ELSE /\ calls' = [calls EXCEPT ![c] =
                              [call EXCEPT
                                 !.pc = "cycles",
                                 !.events = @ \o WarningEvents(cycles),
                                 !.storedAt = IF call.options.skipCache THEN undefined
                                              ELSE StoredAt(put.dc, key),
                                 !.wrote = ~call.options.skipCache
                                           /\ put.dc.cache # dc.cache,
                                 !.pending =
                                    <<[entryFiles |-> call.files,
                                       dependencies |-> merged.dependencies,
                                       circularDependencies |-> cycles,
                                       totalFiles |-> merged.totalFiles,
                                       warnings |->
                                          IF Len(cycles) > 0
                                          THEN <<"Found circular dependencies">>
                                          ELSE << >>]>>]]
               /\ cwd' = cwd
               /\ dc' = IF call.options.skipCache THEN dc ELSE put.dc
    /\ UNCHANGED <<now, last, ih, ga, an>>

\* the call continues after await getCircularDependencies: a fresh result
\* is announced by analysis:complete, a cached one is not; the result is
\* returned and the finally block runs
AnalyzeReturn(c) ==
    /\ calls[c].pc \in {"cycles", "hitCycles"}
    /\ LET call == calls[c]
       IN /\ calls' = [calls EXCEPT ![c] =
                          [call EXCEPT
                             !.pc = "done",
                             !.events = IF call.pc = "cycles"
                                        THEN Append(@, [type |-> "analysis:complete"])
                                        ELSE @,
                             !.pending = << >>,
                             !.ret = call.pending,
                             !.leaks = HasIgnored(ih, call.pending[1].dependencies)]]
          /\ cwd' = Finally(an, cwd, call.options)
    /\ UNCHANGED <<dc, now, last, ih, ga, an>>

Analyzer_initialize ==
    /\ ~an.isInitialized
    /\ an' = [an EXCEPT !.isInitialized = TRUE, !.originalCwd = cwd]
    /\ UNCHANGED <<dc, now, last, ih, ga, cwd, calls>>

(***************************************************************************)
(* The cache driven by a client: every public method, with every option,   *)
(* at any time.                                                            *)
(***************************************************************************)
OptTimeouts == {undefined, 0, 1}

NoCall == [op |-> "none", key |-> "", arg |-> << >>, force |-> FALSE,
           wasInit |-> FALSE, had |-> FALSE, ret |-> << >>, err |-> "none"]

\* the call made at this instant: its arguments (arg is <<graph>> for set),
\* whether the cache was initialized and held the key when it was made, and
\* what it answered
Called(op, key, arg, force, r) ==
    [op |-> op, key |-> key, arg |-> arg, force |-> force,
     wasInit |-> dc.isInitialized, had |-> MapHas(dc.cache, key),
     ret |-> r.ret, err |-> r.err]

WithinCount(c) ==
    /\ c.stats.hits <= MaxCount
    /\ c.stats.misses <= MaxCount
    /\ c.stats.invalidations <= MaxCount

Apply(op, key, arg, force, r) ==
    /\ WithinCount(r.dc)
    /\ dc' = r.dc
    /\ last' = Called(op, key, arg, force, r)
    /\ UNCHANGED <<now, ih, ga, an, cwd, calls>>

DoInitialize(force, timeout) ==
    Apply("initialize", "", << >>, force, Cache_initialize(dc, force, timeout))

DoCleanup == Apply("cleanup", "", << >>, FALSE, Cache_cleanup(dc))

\* arg records options.timeout
DoGet(key, opt) == Apply("get", key, <<opt>>, FALSE, Cache_get(dc, key, opt, now))

DoSet(key, g, opt, force) ==
    Apply("set", key, <<g>>, force, Cache_set(dc, key, g, opt, force, now))

DoDelete(key) == Apply("delete", key, << >>, FALSE, Cache_delete(dc, key, now))

DoClear == Apply("clear", "", << >>, FALSE, Cache_clear(dc))

DoHas(key) == Apply("has", key, << >>, FALSE, Cache_has(dc, key, now))

DoGetStats == Apply("getStats", "", << >>, FALSE, Cache_getStats(dc, now))

\* time passes, between client calls or while an extraction is awaited
Tick ==
    /\ now < MaxTime
    /\ \A c \in CallIds : calls[c].pc \notin {"cycles", "hitCycles"}
    /\ now' = now + 1
    /\ last' = NoCall
    /\ UNCHANGED <<dc, ih, ga, an, cwd, calls>>

NoGather == [op |-> "none", graph |-> << >>, entryFiles |-> << >>,
             maxDepth |-> undefined, ret |-> << >>, err |-> "none",
             progress |-> << >>]

NewAnalyzer == [isInitialized |-> FALSE, originalCwd |-> StartDir]

\* every object as its constructor leaves it
Constructed ==
    /\ dc = NewCache(CacheTimeout)
    /\ now = 0
    /\ last = NoCall
    /\ ih = NewIgnoreHandler(<< >>)
    /\ ga = NoGather
    /\ an = NewAnalyzer
    /\ cwd = StartDir
    /\ calls = [c \in CallIds |-> IdleCall]

CacheInit == Constructed

CacheNext ==
    \/ \E f \in BOOLEAN, t \in OptTimeouts : DoInitialize(f, t)
    \/ DoCleanup
    \/ \E k \in CacheKeys, t \in OptTimeouts : DoGet(k, t)
    \/ \E k \in CacheKeys, g \in CacheGraphs, t \in OptTimeouts, f \in BOOLEAN :
          DoSet(k, g, t, f)
    \/ \E k \in CacheKeys : DoDelete(k)
    \/ DoClear
    \/ \E k \in CacheKeys : DoHas(k)
    \/ DoGetStats
    \/ Tick

SpecCache == CacheInit /\ [][CacheNext]_vars

(***************************************************************************)
(* The analyzer with its cache and its ignore handler, driven by a client  *)
(* that makes one analyzeDependencies call at a time.                      *)
(***************************************************************************)
EntryLists == {<<"a">>, <<"a", "c">>, <<"c", "a">>}
AnalyzeOptions == [skipCache : BOOLEAN, useWorkingDir : BOOLEAN,
                   includeNodeModules : BOOLEAN]
AddedPatterns == {"**/c"}

NoCallInFlight == \A c \in CallIds : calls[c].pc \in {"idle", "done"}

WithinLookups(c) == c.stats.hits + c.stats.misses <= MaxLookups

Ignore_initializeStep ==
    /\ ~ih.isInitialized
    /\ ih' = Ignore_initialize(ih, << >>, << >>)
    /\ UNCHANGED <<dc, now, last, ga, an, cwd, calls>>

Cache_initializeStep ==
    /\ ~dc.isInitialized
    /\ dc' = Cache_initialize(dc, FALSE, undefined).dc
    /\ UNCHANGED <<now, last, ih, ga, an, cwd, calls>>

AddPattern(pattern) ==
    /\ NoCallInFlight
    /\ ~SeqHas(ih.patterns, pattern)
    /\ ih' = Ignore_addPattern(ih, pattern)
    /\ UNCHANGED <<dc, now, last, ga, an, cwd, calls>>

AnalyzeNext ==
    \/ Analyzer_initialize
    \/ Ignore_initializeStep
    \/ Cache_initializeStep
    \/ \E p \in AddedPatterns : AddPattern(p)
    \/ \E files \in EntryLists, options \in AnalyzeOptions :
          /\ NoCallInFlight
          /\ AnalyzeBegin("c1", files, ProjectRoot, options)
          /\ WithinLookups(dc')
    \/ \E rejected \in 0..2 : AnalyzeSettle("c1", rejected)
    \/ AnalyzeReturn("c1")
    \/ Tick

SpecAnalyze == Constructed /\ [][AnalyzeNext]_vars

(***************************************************************************)
(* gatherDependencies applied to every graph, entry list and depth of a    *)
(* bounded universe, under two ignore files.                               *)
(***************************************************************************)
DepLists(f) ==
    LET others == Files \ {f}
    IN {<< >>} \cup {<<x>> : x \in others}
              \cup {p \in others \X others : p[1] # p[2]}

\* the dependency maps with keys among the source files, in sorted key order
KeyList(K) == SelectSeq(FileOrder, LAMBDA f : f \in K)

RECURSIVE GraphsOver(_)
GraphsOver(keys) ==
    IF keys = << >> THEN {<< >>}
    ELSE {<<[file |-> Head(keys), deps |-> d]>> \o rest :
             d \in DepLists(Head(keys)), rest \in GraphsOver(Tail(keys))}

Graphs == UNION {GraphsOver(KeyList(K)) : K \in SUBSET SourceFiles}

GatherEntryLists == {<< >>, <<"a">>, <<"a", "b">>, <<"c", "a">>,
                     <<VendorFile, "b">>, <<"a", "a">>}
Depths == {undefined} \cup (0..MaxDepth)
IgnoreFiles == {<< >>, <<"c">>}

DoGather(g, entryFiles, maxDepth) ==
    /\ LET r == gatherDependencies(an.isInitialized, ih, g, entryFiles, maxDepth)
       IN ga' = [op |-> "gather", graph |-> g, entryFiles |-> entryFiles,
                 maxDepth |-> maxDepth, ret |-> r.ret, err |-> r.err,
                 progress |-> r.progress]
    /\ UNCHANGED <<dc, now, last, ih, an, cwd, calls>>

GatherInit ==
    /\ dc = NewCache(CacheTimeout)
    /\ now = 0
    /\ last = NoCall
    /\ \E lines \in IgnoreFiles :
          ih = Ignore_initialize(NewIgnoreHandler(<< >>), lines, << >>)
    /\ ga = NoGather
    /\ an = [NewAnalyzer EXCEPT !.isInitialized = TRUE]
    /\ cwd = StartDir
    /\ calls = [c \in CallIds |-> IdleCall]

\* one call per behaviour
GatherNext ==
    /\ ga.op = "none"
    /\ \E g \in Graphs, entryFiles \in GatherEntryLists, maxDepth \in Depths :
          DoGather(g, entryFiles, maxDepth)

SpecGather == GatherInit /\ [][GatherNext]_vars

(***************************************************************************)
(* getCircularDependencies applied to every graph of a bounded universe:   *)
(* the graphs above, and the graphs over five nodes in which every node    *)
(* imports at most one node, itself included.                              *)
(***************************************************************************)
CycleNodes == <<"A", "B", "C", "X", "Y">>

RECURSIVE OneImportGraphs(_)
\* a node that imports nothing is not a key, as in a merged graph
OneImportGraphs(nodes) ==
    IF nodes = << >> THEN {<< >>}
    ELSE LET rest == OneImportGraphs(Tail(nodes))
         IN rest \cup {<<[file |-> Head(nodes), deps |-> <<d>>]>> \o g :
                          d \in {CycleNodes[i] : i \in 1..Len(CycleNodes)},
                          g \in rest}

CycleGraphs == Graphs \cup OneImportGraphs(CycleNodes)

DoCycles(g) ==
    /\ LET cycles == getCircularDependencies(g)
       IN ga' = [op |-> "cycles", graph |-> g, entryFiles |-> << >>,
                 maxDepth |-> undefined, ret |-> <<cycles>>, err |-> "none",
                 progress |-> WarningEvents(cycles)]
    /\ UNCHANGED <<dc, now, last, ih, an, cwd, calls>>

\* one call per behaviour
CyclesNext ==
    /\ ga.op = "none"
    /\ \E g \in CycleGraphs : DoCycles(g)

SpecCycles == GatherInit /\ [][CyclesNext]_vars

(***************************************************************************)
(* End to end: an initialized analyzer whose ignore file holds the rule c  *)
(* analyzes the entry a, and the graph returned is gathered from a.        *)
(***************************************************************************)
EndToEndInit ==
    /\ dc = Cache_initialize(NewCache(CacheTimeout), FALSE, undefined).dc
    /\ now = 0
    /\ last = NoCall
    /\ ih = Ignore_initialize(NewIgnoreHandler(<< >>), <<"c">>, << >>)
    /\ ga = NoGather
    /\ an = [NewAnalyzer EXCEPT !.isInitialized = TRUE]
    /\ cwd = StartDir
    /\ calls = [c \in CallIds |-> IdleCall]

GatherReturned ==
    /\ ga.op = "none"
    /\ calls["c1"].pc = "done"
    /\ calls["c1"].ret # << >>
    /\ DoGather(calls["c1"].ret[1].dependencies, <<"a">>, undefined)

EndToEndNext ==
    \/ \E options \in AnalyzeOptions :
          /\ NoCallInFlight
          /\ ga.op = "none"
          /\ AnalyzeBegin("c1", <<"a">>, ProjectRoot, options)
          /\ WithinLookups(dc')
    \/ \E rejected \in 0..1 : AnalyzeSettle("c1", rejected)
    \/ AnalyzeReturn("c1")
    \/ GatherReturned
    \/ Tick

SpecEndToEnd == EndToEndInit /\ [][EndToEndNext]_vars

(***************************************************************************)
(* The ignore handler driven by a client: constructed with or without      *)
(* extra patterns, initialized from an ignore file, its pattern list       *)
(* edited, and asked about every path.                                     *)
(***************************************************************************)
ExtraPatternLists == {<< >>, <<Malformed>>, <<"!node_modules/**">>}
IgnoreFileLines == {<< >>, <<"*.log", "!important.log">>,
                    <<"!important.log", "*.log">>, <<Malformed>>}
AddablePatterns == {"*.log", "!important.log", "!node_modules/**", Malformed}
RemovablePatterns == {"node_modules/**", ".git/**", "*.log"}

\* the record of a call on the handler: arg holds the number of warnings it
\* logged, wasInit whether the handler was initialized when it was made
IgnoreCalled(op, key, ret, err, warnings) ==
    [NoCall EXCEPT !.op = op, !.key = key, !.ret = ret, !.err = err,
                   !.arg = <<warnings>>, !.wasInit = ih.isInitialized]

IgnoreStep(h, call) ==
    /\ Len(h.patterns) <= MaxPatterns
    /\ ih' = h
    /\ last' = call
    /\ UNCHANGED <<dc, now, ga, an, cwd, calls>>

DoIgnoreInitialize(lines) ==
    /\ ~ih.isInitialized
    /\ IgnoreStep(Ignore_initialize(ih, lines, << >>),
                  IgnoreCalled("initialize", "", << >>,
                               IF Ignore_initializeThrows(lines, << >>)
                               THEN "ValidationError" ELSE "none", 0))

DoAddPattern(pattern) ==
    IgnoreStep(Ignore_addPattern(ih, pattern),
               IgnoreCalled("addPattern", pattern, << >>,
                            IF validatePatternThrows(pattern)
                            THEN "ValidationError" ELSE "none", 0))

DoRemovePattern(pattern) ==
    IgnoreStep(Ignore_removePattern(ih, pattern),
               IgnoreCalled("removePattern", pattern,
                            <<SeqHas(ih.patterns, pattern)>>, "none", 0))

DoResetPatterns ==
    IgnoreStep(Ignore_resetPatterns(ih),
               IgnoreCalled("resetPatterns", "", << >>, "none", 0))

DoShouldIgnore(p) ==
    IF ~ih.isInitialized
    THEN IgnoreStep(ih, IgnoreCalled("shouldIgnore", p, << >>, "ValidationError", 0))
    ELSE IgnoreStep(ih, IgnoreCalled("shouldIgnore", p, <<shouldIgnore(ih, p)>>, "none",
                                     IF CrossesVendor(p) THEN 0
                                     ELSE ScanWarnings(p, ih.patterns)))

IgnoreInit ==
    /\ dc = NewCache(CacheTimeout)
    /\ now = 0
    /\ last = NoCall
    /\ \E extraPatterns \in ExtraPatternLists : ih = NewIgnoreHandler(extraPatterns)
    /\ ga = NoGather
    /\ an = NewAnalyzer
    /\ cwd = StartDir
    /\ calls = [c \in CallIds |-> IdleCall]

IgnoreNext ==
    \/ \E lines \in IgnoreFileLines : DoIgnoreInitialize(lines)
    \/ \E pattern \in AddablePatterns : DoAddPattern(pattern)
    \/ \E pattern \in RemovablePatterns : DoRemovePattern(pattern)
    \/ DoResetPatterns
    \/ \E p \in IgnorePaths : DoShouldIgnore(p)

SpecIgnore == IgnoreInit /\ [][IgnoreNext]_vars

(***************************************************************************)
(* validateEntryFiles applied to every entry list of a bounded universe.   *)
(***************************************************************************)
EntryPaths == {"a", "c", VendorFile, MissingFile}

RECURSIVE ListsUpTo(_, _)
ListsUpTo(S, n) ==
    IF n = 0 THEN {<< >>}
    ELSE LET shorter == ListsUpTo(S, n - 1)
         IN shorter \cup {Append(l, x) : l \in shorter, x \in S}

DoValidate(entryFiles, options) ==
    /\ calls' = [calls EXCEPT !["c1"] = validateEntryFiles(an, ih, entryFiles, options)]
    /\ UNCHANGED <<dc, now, last, ih, ga, an, cwd>>

ValidateInit ==
    /\ dc = NewCache(CacheTimeout)
    /\ now = 0
    /\ last = NoCall
    /\ \E lines \in IgnoreFiles :
          ih = Ignore_initialize(NewIgnoreHandler(<< >>), lines, << >>)
    /\ ga = NoGather
    /\ \E initialized \in BOOLEAN :
          an = [NewAnalyzer EXCEPT !.isInitialized = initialized]
    /\ cwd = StartDir
    /\ calls = [c \in CallIds |-> IdleCall]

\* one call per behaviour
ValidateNext ==
    /\ calls["c1"].pc = "idle"
    /\ \E entryFiles \in ListsUpTo(EntryPaths, MaxEntries),
          includeNodeModules \in BOOLEAN :
          DoValidate(entryFiles, [skipCache |-> FALSE, useWorkingDir |-> FALSE,
                                  includeNodeModules |-> includeNodeModules])

SpecValidate == ValidateInit /\ [][ValidateNext]_vars

(***************************************************************************)
(* The three phases that report progress, on one initialized analyzer:     *)
(* entry validation, analysis, and gathering of the graph returned.        *)
(***************************************************************************)
ProgressInit ==
    /\ dc = Cache_initialize(NewCache(CacheTimeout), FALSE, undefined).dc
    /\ now = 0
    /\ last = NoCall
    /\ \E lines \in IgnoreFiles :
          ih = Ignore_initialize(NewIgnoreHandler(<< >>), lines, << >>)
    /\ ga = NoGather
    /\ an = [NewAnalyzer EXCEPT !.isInitialized = TRUE]
    /\ cwd = StartDir
    /\ calls = [c \in CallIds |-> IdleCall]

ProgressNext ==
    \/ /\ calls["c1"].pc = "idle"
       /\ \E entryFiles \in ListsUpTo(EntryPaths, MaxEntries) :
             DoValidate(entryFiles, IdleCall.options)
    \/ /\ calls["c1"].pc \in {"idle", "validated", "done"}
       /\ ga.op = "none"
       /\ \E files \in EntryLists, options \in AnalyzeOptions :
             AnalyzeBegin("c1", files, ProjectRoot, options) /\ WithinLookups(dc')
    \/ \E rejected \in 0..2 : AnalyzeSettle("c1", rejected)
    \/ AnalyzeReturn("c1")
    \/ GatherReturned
    \/ Tick

SpecProgress == ProgressInit /\ [][ProgressNext]_vars

(***************************************************************************)
(* Two analyzeDependencies calls on one analyzer that overlap: the second  *)
(* is made, for another project root, while the first awaits its           *)
(* extractions.  Both calls read and write the analyzer's one originalCwd  *)
(* and the one working directory of the process.  The project under the    *)
(* second root is a copy of the first.                                     *)
(***************************************************************************)
OtherRoot == "/other"
OverlapIds == {"c1", "c2"}

OverlapInit ==
    /\ dc = Cache_initialize(NewCache(CacheTimeout), FALSE, undefined).dc
    /\ now = 0
    /\ last = NoCall
    /\ \E lines \in IgnoreFiles :
          ih = Ignore_initialize(NewIgnoreHandler(<< >>), lines, << >>)
    /\ ga = NoGather
    /\ an = [NewAnalyzer EXCEPT !.isInitialized = TRUE]
    /\ cwd = StartDir
    /\ calls = [c \in OverlapIds |-> IdleCall]

OverlapNext ==
    \/ /\ calls["c1"].pc = "idle"
       /\ calls["c2"].pc = "idle"
       /\ \E files \in EntryLists, options \in AnalyzeOptions :
             AnalyzeBegin("c1", files, ProjectRoot, options)
    \/ /\ calls["c1"].pc = "extracting"
       /\ calls["c2"].pc = "idle"
       /\ \E files \in EntryLists, options \in AnalyzeOptions :
             AnalyzeBegin("c2", files, OtherRoot, options)
    \/ \E c \in OverlapIds, rejected \in 0..2 : AnalyzeSettle(c, rejected)
    \/ \E c \in OverlapIds : AnalyzeReturn(c)

SpecOverlap == OverlapInit /\ [][OverlapNext]_vars

(***************************************************************************)
(* Claims about gatherDependencies.                                        *)
(***************************************************************************)
Range(list) == {list[i] : i \in 1..Len(list)}

Successors(g, S) == UNION {Range(DepsOf(g, f)) : f \in S}

RECURSIVE WithinHops(_, _, _)
\* the paths at most d edges of g away from a path of S
WithinHops(g, S, d) ==
    IF d = 0 THEN S
    ELSE LET near == WithinHops(g, S, d - 1) IN near \cup Successors(g, near)

RECURSIVE Closure(_, _, _)
\* the least set that holds the allowed paths of S and, with a path, its
\* allowed successors in g
Closure(g, S, allowed) ==
    LET base == S \cap allowed
        next == (base \cup Successors(g, base)) \cap allowed
    IN IF next = base THEN base ELSE Closure(g, next, allowed)

Gathered == ga.op = "gather" /\ ga.err = "none"

HopBound == IF ga.maxDepth = undefined THEN Cardinality(Files) ELSE ga.maxDepth

\* C4: every member of the list gatherDependencies returns is at most
\* maxDepth edges away from an entry file (any number of edges when maxDepth
\* is undefined), and shouldIgnore rejects none of them.
C4_GatherWithinDepth ==
    Gathered =>
        \A m \in Range(ga.ret[1]) :
            /\ m \in WithinHops(ga.graph, Range(ga.entryFiles), HopBound)
            /\ ~shouldIgnore(ih, m)

C4_Witness ==
    /\ Gathered
    /\ ga.maxDepth = 1
    /\ Len(ga.ret[1]) >= 2
    /\ \E f \in WithinHops(ga.graph, Range(ga.entryFiles), 2) :
          ~shouldIgnore(ih, f) /\ f \notin Range(ga.ret[1])
    /\ \E f \in WithinHops(ga.graph, Range(ga.entryFiles), 1) : shouldIgnore(ih, f)

\* C5: with maxDepth undefined the returned list holds exactly the paths of
\* the closure of the non-ignored entry files under non-ignored successors,
\* each once, and the loop ends after at most one round per queued path.
C5_GatherFullClosure ==
    (Gathered /\ ga.maxDepth = undefined) =>
        /\ Range(ga.ret[1]) =
              Closure(ga.graph, Range(ga.entryFiles),
                      {f \in Files : ~shouldIgnore(ih, f)})
        /\ \A i, j \in 1..Len(ga.ret[1]) : ga.ret[1][i] = ga.ret[1][j] => i = j
        /\ Len(ga.progress) <= Len(ga.entryFiles) + Cardinality(Files)

C5_Witness ==
    /\ Gathered
    /\ ga.maxDepth = undefined
    /\ Len(getCircularDependencies(ga.graph)) > 0
    /\ Len(ga.ret[1]) = 3
    /\ ga.entryFiles = <<"a">>
    /\ \E f \in WithinHops(ga.graph, {"a"}, 1) : shouldIgnore(ih, f)

(***************************************************************************)
(* Claims about the ignore handler.                                        *)
(***************************************************************************)
\* shouldIgnore has returned for the path last.key
Asked == last.op = "shouldIgnore" /\ last.err = "none"

\* micromatch.isMatch reports a match of the path with the pattern as listed
Matches(p, pattern) == pattern # Malformed /\ isMatch(p, pattern)

MatchingPositions(p) == {i \in 1..Len(ih.patterns) : Matches(p, ih.patterns[i])}

FirstPosition(S) == CHOOSE i \in S : \A j \in S : i <= j

\* C14: for a path outside node_modules the answer of shouldIgnore is that
\* of the first pattern, in list order, for which isMatch reports a match:
\* ignored unless that pattern starts with "!", not ignored when none
\* matches; later patterns do not change it.  With the list *.log,
\* !important.log the path important.log is ignored.
C14_FirstMatchWins ==
    (Asked /\ ~CrossesVendor(last.key)) =>
        /\ MatchingPositions(last.key) = {} => last.ret = <<FALSE>>
        /\ MatchingPositions(last.key) # {} =>
              last.ret = <<~Negated(ih.patterns[FirstPosition(MatchingPositions(last.key))])>>
        /\ (ih.patterns = <<"*.log", "!important.log">> /\ last.key = "important.log")
              => last.ret = <<TRUE>>

C14_Witness ==
    /\ Asked
    /\ last.key = "important.log"
    /\ ih.patterns = <<"*.log", "!important.log">>
    /\ last.ret = <<TRUE>>

\* the glob a pattern names matches the path
Names(p, pattern) == pattern # Malformed /\ GlobMatch(p, Positive(pattern))

\* C15: with a negation !P listed before a pattern Q, a path that Q matches
\* and no other pattern before Q names is not ignored when P matches it and
\* ignored when P does not.
C15_NegationRescuesOnlyItsPath ==
    (Asked /\ ~CrossesVendor(last.key)) =>
        \A i, j \in 1..Len(ih.patterns) :
            ( /\ i < j
              /\ Negated(ih.patterns[i])
              /\ ~Negated(ih.patterns[j])
              /\ Names(last.key, ih.patterns[j])
              /\ \A k \in 1..(j - 1) : k # i => ~Names(last.key, ih.patterns[k]) )
            => last.ret = <<~Names(last.key, ih.patterns[i])>>

\* C16: whatever the pattern list holds, shouldIgnore answers ignored for a
\* path that crosses node_modules, without evaluating a pattern.
C16_VendorAlwaysIgnored ==
    (Asked /\ CrossesVendor(last.key)) => (last.ret = <<TRUE>> /\ last.arg = <<0>>)

C16_Witness ==
    /\ Asked
    /\ CrossesVendor(last.key)
    /\ ih.patterns # << >>
    /\ Head(ih.patterns) = "!node_modules/**"
    /\ ~SeqHas(ih.patterns, "node_modules/**")
    /\ last.ret = <<TRUE>>

\* C20: when shouldIgnore runs, no pattern of the list is one that
\* validatePattern refuses, and the scan logs no matching error.
C20_PatternsValidatedAtRegistration ==
    Asked =>
        /\ \A i \in 1..Len(ih.patterns) : ~validatePatternThrows(ih.patterns[i])
        /\ last.arg = <<0>>

(***************************************************************************)
(* Claims about getCircularDependencies.                                   *)
(***************************************************************************)
AllNodes == Files \cup Range(CycleNodes)

\* the nodes reached from n along one edge or more
ReachPlus(g, n) == Closure(g, Successors(g, {n}), AllNodes)

OnLoop(g, n) == n \in ReachPlus(g, n)

\* the nodes mutually reachable with n
Group(g, n) == {m \in AllNodes : m \in ReachPlus(g, n) /\ n \in ReachPlus(g, m)}

\* the list is a loop of g: every node imports the next, the last the first
IsLoop(g, cycle) ==
    /\ Len(cycle) > 0
    /\ \A i \in 1..Len(cycle) :
          SeqHas(DepsOf(g, cycle[i]), cycle[(i % Len(cycle)) + 1])

CyclesFound == ga.op = "cycles"

ExampleGraph ==
    <<[file |-> "A", deps |-> <<"B">>], [file |-> "B", deps |-> <<"C">>],
      [file |-> "C", deps |-> <<"A">>], [file |-> "X", deps |-> <<"Y">>],
      [file |-> "Y", deps |-> <<"X">>]>>

\* C12: every group of mutually reachable nodes that holds an import loop
\* has a reported cycle that is a loop inside the group, wherever the
\* traversal began; for A->B, B->C, C->A with X->Y, Y->X the result is the
\* two cycles [A,B,C] and [X,Y].
C12_EveryLoopGroupReported ==
    CyclesFound =>
        /\ \A n \in AllNodes :
              OnLoop(ga.graph, n) =>
                  \E i \in 1..Len(ga.ret[1]) :
                      /\ IsLoop(ga.graph, ga.ret[1][i])
                      /\ Range(ga.ret[1][i]) \subseteq Group(ga.graph, n)
        /\ ga.graph = ExampleGraph => ga.ret[1] = <<<<"A", "B", "C">>, <<"X", "Y">>>>

C12_Witness ==
    /\ CyclesFound
    /\ ga.graph = ExampleGraph
    /\ Len(ga.ret[1]) = 2
    /\ Len(ga.progress) = 2

(***************************************************************************)
(* Claims about analyzeDependencies.                                       *)
(***************************************************************************)
Settled(c) == calls[c].pc = "done"

Returned(c) == Settled(c) /\ calls[c].ret # << >>

ExtractionFailed(c) == Settled(c) /\ calls[c].failed # ""

EventCount(c, type) ==
    Cardinality({i \in 1..Len(calls[c].events) : calls[c].events[i].type = type})

\* C1: the graph returned by a call made without includeNodeModules has no
\* key and no member value that shouldIgnore rejects at the time of the call,
\* whether it was merged by the call or read from the cache.
C1_NoIgnoredPathReturned ==
    \A c \in CallIds :
        (Returned(c) /\ ~calls[c].options.includeNodeModules /\ ih.isInitialized)
            => ~calls[c].leaks

\* the step that begins a call on c after a call on c that returned a graph,
\* with the same key, both using the cache, within the TTL of the entry the
\* earlier call left in the cache
RepeatWithinTtl(c) ==
    /\ Returned(c)
    /\ ~calls[c].options.skipCache
    /\ calls[c].storedAt # undefined
    /\ calls'[c].pc \in {"extracting", "hitCycles"}
    /\ ~calls'[c].options.skipCache
    /\ getCacheKey(calls'[c].files, ProjectRoot) = getCacheKey(calls[c].files, ProjectRoot)
    /\ now - calls[c].storedAt <= dc.timeout

\* C2: a call that repeats the entry set of the call before it, both using
\* the cache, within the TTL of the entry the earlier call left, invokes the
\* adapter zero times and returns the graph the earlier call returned.
C2_CacheIdempotence ==
    /\ [][\A c \in CallIds :
            RepeatWithinTtl(c) =>
                /\ calls'[c].pc = "hitCycles"
                /\ calls'[c].adapterCalls = 0
                /\ calls'[c].pending[1].dependencies = calls[c].ret[1].dependencies]_vars
    /\ [][\A c \in CallIds :
            (calls[c].pc = "hitCycles" /\ calls'[c].pc # "hitCycles") =>
                /\ calls'[c].pc = "done"
                /\ calls'[c].ret = calls[c].pending
                /\ calls'[c].adapterCalls = 0]_vars

C2_Witness ==
    \E c \in CallIds :
        /\ Returned(c)
        /\ calls[c].adapterCalls = 0
        /\ calls[c].files = <<"c", "a">>
        /\ calls[c].storedAt = now - dc.timeout
        /\ calls[c].storedAt >= 0
        /\ Len(calls[c].ret[1].dependencies) > 0

\* C8: when the extraction of an entry is rejected, the error raised carries
\* that entry as its entry point and the whole entry list.
C8_ErrorNamesFailedEntry ==
    \A c \in CallIds :
        ExtractionFailed(c) =>
            /\ calls[c].err.entryPoint = calls[c].failed
            /\ calls[c].err.failedDependencies = calls[c].files

\* C9: when the extraction of an entry is rejected the call raises one
\* error, returns no result, emits one analysis:error and no
\* analysis:complete event and writes nothing to the cache.
C9_FailureSurfacesNothing ==
    /\ [](\A c \in CallIds :
            ExtractionFailed(c) =>
                /\ calls[c].ret = << >>
                /\ calls[c].pending = << >>
                /\ calls[c].err.name = "DependencyAnalysisError"
                /\ EventCount(c, "analysis:error") = 1
                /\ EventCount(c, "analysis:complete") = 0
                /\ ~calls[c].wrote)
    /\ [][\A c \in CallIds :
            (calls'[c].failed # "" /\ calls[c].pc = "extracting") => dc' = dc]_vars

C9_Witness ==
    \E c \in CallIds :
        /\ ExtractionFailed(c)
        /\ Len(calls[c].files) = 2
        /\ calls[c].adapterCalls = 2
        /\ ~calls[c].options.skipCache
        /\ dc.isInitialized /\ ih.isInitialized
        /\ dc.cache = EmptyMap

\* C10: a call made with useWorkingDir leaves the process, when it settles,
\* in the directory it started in, and runs in the project root meanwhile.
C10_WorkingDirRestored ==
    \A c \in CallIds :
        calls[c].options.useWorkingDir =>
            /\ Settled(c) => cwd = calls[c].startCwd
            /\ calls[c].pc \in {"extracting", "cycles", "hitCycles"} => cwd = ProjectRoot

C10_Witness ==
    \E c \in CallIds :
        /\ ExtractionFailed(c)
        /\ calls[c].options.useWorkingDir
        /\ calls[c].startCwd = StartDir
        /\ cwd = StartDir
        /\ an.originalCwd = StartDir

\* C11: every result returned carries a non-empty warnings list exactly
\* when its list of circular dependencies is non-empty, for a result read from
\* the cache as for a freshly merged one.
C11_WarningsIffCycles ==
    \A c \in CallIds :
        Returned(c) =>
            (calls[c].ret[1].warnings # << >>
                <=> calls[c].ret[1].circularDependencies # << >>)

\* a result merged by the call itself, without includeNodeModules
FreshDefault(c) ==
    /\ Returned(c)
    /\ calls[c].adapterCalls > 0
    /\ ~calls[c].options.includeNodeModules

ExpectedGraph ==
    <<[file |-> "a", deps |-> <<"b">>], [file |-> "b", deps |-> <<"a">>]>>

\* C13: with imports a->b, b->c, b->a and the ignore rule c, analyzing the
\* entry a gives the graph a:[b], b:[a] with the one cycle [a,b], and
\* gathering that graph from a without a depth limit gives a and b.
C13_EndToEnd ==
    /\ FreshDefault("c1") =>
          /\ calls["c1"].ret[1].dependencies = ExpectedGraph
          /\ calls["c1"].ret[1].circularDependencies = <<<<"a", "b">>>>
    /\ (FreshDefault("c1") /\ ga.op = "gather") =>
          /\ ga.graph = ExpectedGraph
          /\ ga.err = "none"
          /\ Range(ga.ret[1]) = {"a", "b"}
          /\ Len(ga.ret[1]) = 2

C13_Witness ==
    /\ FreshDefault("c1")
    /\ ga.op = "gather"
    /\ ga.ret = <<<<"a", "b">>>>
    /\ ih.patterns = DefaultPatterns \o <<"c", "**/c">>

\* validateEntryFiles has settled on an initialized analyzer
Validated == calls["c1"].pc = "validated" /\ an.isInitialized

\* the entries that are missing or ignored, in input order
InvalidEntries ==
    SelectSeq(calls["c1"].files,
              LAMBDA f : \/ f = MissingFile
                         \/ /\ ~calls["c1"].options.includeNodeModules
                            /\ shouldIgnore(ih, f))

\* C17: validateEntryFiles examines every entry: with an invalid entry it
\* returns nothing and raises one error, after the last entry, that names
\* every invalid entry; with none it returns every entry, in input order.
C17_ValidationAccumulates ==
    Validated =>
        /\ InvalidEntries # << >> =>
              /\ calls["c1"].ret = << >>
              /\ calls["c1"].err.name = "DependencyAnalysisError"
              /\ EventCount("c1", "analysis:error") = 1
              /\ calls["c1"].events[Len(calls["c1"].events)].type = "analysis:error"
              /\ EventCount("c1", "warning") = Len(InvalidEntries)
              /\ calls["c1"].err.failedDependencies = InvalidEntries
        /\ InvalidEntries = << >> =>
              /\ calls["c1"].ret = <<calls["c1"].files>>
              /\ calls["c1"].err = NoError

(***************************************************************************)
(* Claims about the cache.                                                 *)
(***************************************************************************)
StoredAge(k) == now - dc.cache[k].timestamp

\* a step in which a client call was made; last' describes the call
\* (time passing clears last)
CallStep == last'.op # "none"

\* C3: an entry whose age exceeds the TTL recorded in the entry itself
\* (entry.timeout) is a miss for get and absent for has, and the call
\* removes it.
C3_EntryTtlEvicts ==
    [][( /\ CallStep
         /\ last'.op \in {"get", "has"}
         /\ dc.isInitialized
         /\ MapHas(dc.cache, last'.key)
         /\ StoredAge(last'.key) > dc.cache[last'.key].timeout )
       => ( /\ last'.op = "get" => last'.ret = << >>
            /\ last'.op = "has" => last'.ret = <<FALSE>>
            /\ ~MapHas(dc'.cache, last'.key) )]_vars

\* C6: a set without force on a stored key leaves the stored entry as it
\* was, and so does a hit; a set with force stores the new graph with the
\* current time; a set on an absent key stores the new entry.
C6_SetWritesOnlyIfAbsent ==
    /\ []( (last.op = "set" /\ last.err = "none" /\ (last.force \/ ~last.had))
           => /\ MapHas(dc.cache, last.key)
              /\ <<dc.cache[last.key].dependencies>> = last.arg
              /\ dc.cache[last.key].timestamp = now )
    /\ [][( /\ CallStep
            /\ last'.err = "none"
            /\ \/ last'.op = "set" /\ ~last'.force /\ last'.had
               \/ last'.op = "get" /\ last'.ret # << >> )
          => ( /\ MapHas(dc.cache, last'.key)
               /\ MapHas(dc'.cache, last'.key)
               /\ dc'.cache[last'.key] = dc.cache[last'.key] )]_vars

\* a set without force has just been made on a key stored earlier, and the
\* entry still carries the earlier time
C6_Witness ==
    /\ last.op = "set" /\ ~last.force /\ last.had /\ last.err = "none"
    /\ MapHas(dc.cache, last.key)
    /\ dc.cache[last.key].timestamp < now

\* C7: get, set, has, delete and clear on a cache that is not initialized
\* raise a cache error and change neither the entries nor the statistics;
\* a cache that is not initialized (never initialized, or cleaned up) holds
\* no entries.
C7_UninitializedFailsFast ==
    /\ [](~dc.isInitialized => dc.cache = EmptyMap)
    /\ [][( /\ CallStep
            /\ ~dc.isInitialized
            /\ last'.op \in {"get", "set", "has", "delete", "clear"} )
          => (last'.err = "CacheError" /\ dc' = dc)]_vars

\* an operation has just been refused on a cache that was cleaned up after use
C7_Witness ==
    /\ last.op \in {"get", "set", "has", "delete", "clear"}
    /\ ~last.wasInit
    /\ last.err = "CacheError"
    /\ now > 0

\* C18: after delete of a stored key and after clear, the entries aimed at
\* are gone and getStats reports the size, oldest timestamp and average age
\* of the entries left, and 0 hits, misses and invalidations.
C18_DeleteClearResetStats ==
    ( /\ last.err = "none"
      /\ last.wasInit
      /\ last.op = "clear" \/ (last.op = "delete" /\ last.had) )
    => LET stats == Cache_getStats(dc, now).ret[1]
       IN /\ last.op = "clear" => dc.cache = EmptyMap
          /\ last.op = "delete" => ~MapHas(dc.cache, last.key)
          /\ stats.size = Cardinality(DOMAIN dc.cache)
          /\ dc.cache = EmptyMap => (stats.oldestEntry = null /\ stats.averageAge = <<0, 1>>)
          /\ dc.cache # EmptyMap =>
                /\ \E k \in DOMAIN dc.cache : stats.oldestEntry = dc.cache[k].timestamp
                /\ \A k \in DOMAIN dc.cache : stats.oldestEntry <= dc.cache[k].timestamp
          /\ stats.hits = 0
          /\ stats.misses = 0
          /\ stats.invalidations = 0

\* the TTL a get with options.timeout = opt is to apply: opt when it is
\* given, 0 included, and the default TTL of the cache otherwise
ProvidedOr(opt, default) == IF opt # undefined THEN opt ELSE default

\* C19: a get on a stored key evicts the entry and reports a miss exactly
\* when its age exceeds options.timeout when that is given (0 included) and
\* the default TTL otherwise; else it is a hit that adds one to the hit
\* counter and returns the stored graph.  has evicts by the default TTL.
C19_GetHonoursGivenTimeout ==
    [][( /\ CallStep
         /\ last'.op \in {"get", "has"}
         /\ dc.isInitialized
         /\ MapHas(dc.cache, last'.key) )
       => LET entry == dc.cache[last'.key]
              T == IF last'.op = "get" THEN ProvidedOr(last'.arg[1], dc.timeout)
                   ELSE dc.timeout
              expired == now - entry.timestamp > T
          IN /\ expired => ~MapHas(dc'.cache, last'.key)
             /\ ~expired => (MapHas(dc'.cache, last'.key) /\ dc'.cache[last'.key] = entry)
             /\ last'.op = "get" =>
                   /\ expired => last'.ret = << >>
                   /\ ~expired => ( /\ last'.ret = <<entry.dependencies>>
                                    /\ dc'.stats.hits = dc.stats.hits + 1 )
             /\ last'.op = "has" => last'.ret = <<~expired>>]_vars

(***************************************************************************)
(* Claims about the progress and lifecycle notifications.                  *)
(***************************************************************************)
IsProgress(event, phase) == event.type = "progress" /\ event.phase = phase

\* in the list of events, the completed counts of the phase never decrease
NonDecreasing(events, phase) ==
    \A i, j \in 1..Len(events) :
        (i < j /\ IsProgress(events[i], phase) /\ IsProgress(events[j], phase))
            => events[i].completed <= events[j].completed

\* the progress events of the gatherDependencies call
GatherProgress == IF ga.op = "gather" THEN ga.progress ELSE << >>

\* C21: within a call the completed counts of the progress events of one
\* phase never decrease, in validation, in the analysis fan-out and in
\* gathering.
C21_ProgressNeverDecreases ==
    /\ \A c \in CallIds :
          /\ NonDecreasing(calls[c].events, "validation")
          /\ NonDecreasing(calls[c].events, "analysis")
    /\ \A i, j \in 1..Len(GatherProgress) :
          i < j => GatherProgress[i].completed <= GatherProgress[j].completed

C21_Witness ==
    /\ ga.op = "gather"
    /\ Len(ga.progress) >= 3
    /\ Cardinality({i \in 1..Len(calls["c1"].events) :
                      IsProgress(calls["c1"].events[i], "analysis")}) = 2

\* C22: totalFiles of a result returned is the number of distinct files that
\* are keys of its graph, each counted once, and a result read from the
\* cache reports the totalFiles of the call before it that left the graph there.
C22_TotalFilesDistinct ==
    /\ [](\A c \in CallIds :
            Returned(c) =>
                calls[c].ret[1].totalFiles = Cardinality(Keys(calls[c].ret[1].dependencies)))
    /\ [][\A c \in CallIds :
            (RepeatWithinTtl(c) /\ calls'[c].pc = "hitCycles") =>
                calls'[c].pending[1].totalFiles = calls[c].ret[1].totalFiles]_vars

\* the paths shouldIgnore lets through
Allowed == {f \in Files : ~shouldIgnore(ih, f)}

RECURSIVE AllowedWithin(_, _, _, _)
\* the allowed paths at most d edges away from an allowed path of S along
\* paths of allowed paths only
AllowedWithin(g, S, allowed, d) ==
    IF d = 0 THEN S \cap allowed
    ELSE LET near == AllowedWithin(g, S, allowed, d - 1)
         IN near \cup (Successors(g, near) \cap allowed)

\* the least number of edges from an allowed path of S to f
Distance(g, S, allowed, f) ==
    MinOf({d \in 0..Cardinality(Files) : f \in AllowedWithin(g, S, allowed, d)})

\* C23: with maxDepth defined, the list gatherDependencies returns holds
\* exactly the non-ignored paths whose least distance from a non-ignored
\* entry file, along non-ignored paths, is at most maxDepth (for maxDepth 0
\* the non-ignored entry files); the entry files come first and the
\* distances never decrease along the list.
C23_GatherShortestDistance ==
    (Gathered /\ ga.maxDepth # undefined) =>
        LET list == ga.ret[1]
            E == Range(ga.entryFiles)
            dist(f) == Distance(ga.graph, E, Allowed, f)
        IN /\ Range(list) = AllowedWithin(ga.graph, E, Allowed, ga.maxDepth)
           /\ ga.maxDepth = 0 => Range(list) = E \cap Allowed
           /\ \A i \in 1..Cardinality(E \cap Allowed) : list[i] \in E
           /\ \A i, j \in 1..Len(list) : i < j => dist(list[i]) <= dist(list[j])

\* a path one edge away from the entry file that also ends a route of two
\* edges is kept at maxDepth 1, next to an ignored successor
C23_Witness ==
    /\ Gathered
    /\ ga.maxDepth = 1
    /\ ga.entryFiles = <<"a">>
    /\ \E m \in Range(ga.ret[1]) :
          /\ Distance(ga.graph, {"a"}, Allowed, m) = 1
          /\ \E n \in Range(ga.ret[1]) \ {"a", m} : m \in Range(DepsOf(ga.graph, n))
    /\ Len(ga.ret[1]) = 3

(***************************************************************************)
(* Further claims about getCircularDependencies.                           *)
(***************************************************************************)
NoRepeat(list) == \A i, j \in 1..Len(list) : list[i] = list[j] => i = j

\* C24: every cycle returned is an import loop of the graph given - each
\* node imports the next one and the last imports the first - in which no
\* node occurs twice; the result is empty for a graph without import loop.
C24_CyclesAreLoops ==
    CyclesFound =>
        /\ \A i \in 1..Len(ga.ret[1]) :
              /\ IsLoop(ga.graph, ga.ret[1][i])
              /\ NoRepeat(ga.ret[1][i])
        /\ (\A n \in AllNodes : ~OnLoop(ga.graph, n)) => ga.ret[1] = << >>

\* a loop of three nodes entered from the first key, which is not part of it
C24_Witness ==
    /\ CyclesFound
    /\ Len(ga.graph) > 0
    /\ \E i \in 1..Len(ga.ret[1]) :
          LET cycle == ga.ret[1][i]
          IN /\ Len(cycle) = 3
             /\ ga.graph[1].file \notin Range(cycle)
             /\ SeqHas(DepsOf(ga.graph, ga.graph[1].file), cycle[1])

\* t is s read from some position on, round the end
IsRotation(s, t) ==
    /\ Len(s) = Len(t)
    /\ \E k \in 0..(Len(s) - 1) :
          \A i \in 1..Len(s) : t[i] = s[((i - 1 + k) % Len(s)) + 1]

\* C25: no two cycles of the list returned are equal, and none is a
\* rotation of another: every loop found is reported from one starting node.
C25_NoRotations ==
    CyclesFound =>
        \A i, j \in 1..Len(ga.ret[1]) :
            i # j => ~IsRotation(ga.ret[1][i], ga.ret[1][j])

\* two loops through one node, both reported, in a graph where every key
\* is on a loop
C25_Witness ==
    /\ CyclesFound
    /\ Len(ga.ret[1]) = 2
    /\ Len(ga.ret[1][1]) = 2
    /\ Len(ga.ret[1][2]) = 2
    /\ Range(ga.ret[1][1]) \cap Range(ga.ret[1][2]) # {}
    /\ \A k \in 1..Len(ga.graph) : OnLoop(ga.graph, ga.graph[k].file)

(***************************************************************************)
(* Further claims about the progress and lifecycle notifications.          *)
(***************************************************************************)
WithinTotal(event) == 0 <= event.completed /\ event.completed <= event.total

\* C26: in every progress notification of validation, of the analysis
\* fan-out and of gathering, completed is at least 0 and at most total.
C26_CompletedWithinTotal ==
    /\ \A c \in CallIds :
          \A i \in 1..Len(calls[c].events) :
              calls[c].events[i].type = "progress" => WithinTotal(calls[c].events[i])
    /\ \A i \in 1..Len(GatherProgress) : WithinTotal(GatherProgress[i])

Terminating(event) == event.type \in {"analysis:complete", "analysis:error"}

\* C27: a call that emitted analysis:start and has settled emitted exactly
\* one terminating notification, analysis:complete if it returned a result
\* (merged or read from the cache) and analysis:error if it threw; and no
\* call emits a terminating notification before its analysis:start.
C27_StartThenOneEnd ==
    \A c \in CallIds :
        /\ (Settled(c) /\ EventCount(c, "analysis:start") > 0) =>
              /\ EventCount(c, "analysis:complete") + EventCount(c, "analysis:error") = 1
              /\ Returned(c) => EventCount(c, "analysis:complete") = 1
              /\ ~Returned(c) => EventCount(c, "analysis:error") = 1
        /\ EventCount(c, "analysis:start") > 0 =>
              \A i \in 1..Len(calls[c].events) :
                  Terminating(calls[c].events[i]) =>
                      \E j \in 1..(i - 1) : calls[c].events[j].type = "analysis:start"

(***************************************************************************)
(* Further claims about the cache and the ignore handler.                  *)
(***************************************************************************)
\* C28: at the instant a set on an initialized cache has returned, has
\* answers true for its key and get is a hit, whatever the cache held.
C28_SetThenPresent ==
    [][( /\ CallStep
         /\ last'.op = "set"
         /\ last'.err = "none" )
       => ( /\ Cache_has(dc', last'.key, now').ret = <<TRUE>>
            /\ Cache_get(dc', last'.key, undefined, now').ret # << >> )]_vars

InitializeFailed == last.op = "initialize" /\ last.err = "ValidationError"

\* C29: after an initialize of the ignore handler that failed, the handler
\* is not initialized, and a shouldIgnore made next raises an error instead
\* of answering.
C29_FailedInitializeLeavesUninitialized ==
    /\ [](InitializeFailed => ~ih.isInitialized)
    /\ [][(InitializeFailed /\ last'.op = "shouldIgnore")
          => (last'.err = "ValidationError" /\ last'.ret = << >>)]_vars

(***************************************************************************)
(* Claim about overlapping analyzeDependencies calls.                      *)
(***************************************************************************)
\* the second call was made with useWorkingDir while the first, also made
\* with it, awaited its extractions
Overlapped ==
    /\ DOMAIN calls = OverlapIds
    /\ calls["c1"].options.useWorkingDir
    /\ calls["c2"].options.useWorkingDir
    /\ calls["c1"].projectRoot # calls["c2"].projectRoot
    /\ calls["c2"].startCwd = calls["c1"].projectRoot

\* C30: once two overlapping calls made with useWorkingDir for different
\* project roots have both settled, in either order, the working directory
\* of the process is the one the first call started in.
C30_OverlapRestoresCwd ==
    (Overlapped /\ calls["c1"].pc = "done" /\ calls["c2"].pc = "done")
        => cwd = calls["c1"].startCwd

====
